---- MODULE Spec2Model ----
(***************************************************************************)
(* Task store of task-wp-tracker-pro (zustand store useTaskStore) and the  *)
(* derived hierarchy walks of its views, as a state machine.               *)
(*                                                                         *)
(* Ids handed out by uuidv4() are modelled as fresh positive integers.     *)
(* Instants are small naturals; Date.now() is a clock that never runs      *)
(* backwards and is at least 1.  An absent optional field (undefined) is   *)
(* the value Undefined; JavaScript truthiness of a number is kept: both    *)
(* undefined and 0 are falsy.                                              *)
(***************************************************************************)
EXTENDS Integers, Sequences, FiniteSets, TLC

\* ---------------------------------------------------------------- bounds
\* Ids uuidv4() may hand out to tasks and to time logs, and the largest instant,
\* in the store specification (Spec), the timer-only one (SpecTimer) and the
\* task-tree one (SpecTree).
MaxTasks == 2
MaxLogs == 2
MaxNow == 2
MaxTimerTasks == 2
MaxTimerLogs == 3
MaxTreeTasks == 3

\* ------------------------------------------------------------ data model
Undefined == -1

Statuses == {"TODO", "IN_PROGRESS", "PAUSED", "DONE"}

DefaultMainCategories == <<"Development", "Meeting", "General">>

DefaultSubCategories == <<"Frontend", "Backend", "Research", "Planning", "Urgent">>

\* The store, and one run of a hierarchy walk of a view over the task list:
\* which walk (wkind), its argument, the call stack, what it emitted so far,
\* and the number of tasks it visited.
VARIABLES tasks, mainCategories, subCategories, clock, nextTaskId, nextLogId, last,
          wkind, warg, wpc, wstack, wresult, wsteps

storeVars == <<tasks, mainCategories, subCategories, clock, nextTaskId, nextLogId, last>>

walkVars == <<wkind, warg, wpc, wstack, wresult, wsteps>>

vars == <<storeVars, walkVars>>

\* JavaScript truthiness of an optional number: undefined and 0 are falsy.
Falsy(x) == x = Undefined \/ x = 0

\* JavaScript  x || d
OrElse(x, d) == IF Falsy(x) THEN d ELSE x

TaskIds(ts) == {ts[i].id : i \in 1..Len(ts)}

\* ------------------------------------------------------ time-log helpers
\* task.timeLogs.findIndex(log => !log.endTime), 1-based; 0 stands for -1.
FindActiveLogIndex(logs) ==
    IF \E i \in 1..Len(logs) : Falsy(logs[i].endTime)
    THEN CHOOSE i \in 1..Len(logs) :
            /\ Falsy(logs[i].endTime)
            /\ \A j \in 1..(i - 1) : ~Falsy(logs[j].endTime)
    ELSE 0

\* logs.reduce((acc, log) => acc + ((log.endTime || dflt) - log.startTime), 0)
RECURSIVE ReduceTotal(_, _)
ReduceTotal(logs, dflt) ==
    IF logs = <<>> THEN 0
    ELSE ReduceTotal(SubSeq(logs, 1, Len(logs) - 1), dflt)
         + (OrElse(logs[Len(logs)].endTime, dflt) - logs[Len(logs)].startTime)

\* Variant: the log is closed and the total recomputed, the status is kept.
CloseActiveLogKeepsStatus(task, now) ==
    LET i == FindActiveLogIndex(task.timeLogs)
        updatedLogs == [task.timeLogs EXCEPT ![i].endTime = now]
    IN [task EXCEPT !.timeLogs = updatedLogs,
                    !.totalTimeSpent = ReduceTotal(updatedLogs, now)]

\* The branch shared by startTimer and stopTimer: close the first open log at
\* now, recompute the total with (endTime || now), set the status to PAUSED.
CloseActiveLog(task, now) ==
    LET i == FindActiveLogIndex(task.timeLogs)
        updatedLogs == [task.timeLogs EXCEPT ![i].endTime = now]
    IN [task EXCEPT !.status = "PAUSED",
                    !.timeLogs = updatedLogs,
                    !.totalTimeSpent = ReduceTotal(updatedLogs, now)]

\* ------------------------------------------------------- store operations
\* Each operation as a function of the task list, then as an action.

\* Variant: the labels of taskData are not overwritten.
NewTaskKeepsLabels(id, taskData) ==
    LET own == [id |-> id, timeLogs |-> <<>>, totalTimeSpent |-> 0, outputs |-> <<>>]
    IN [f \in DOMAIN taskData \cup DOMAIN own \cup {"actualStartDate", "labels"} |->
           IF f \in DOMAIN own THEN own[f]
           ELSE IF f \in DOMAIN taskData THEN taskData[f]
           ELSE IF f = "labels" THEN <<>>
           ELSE Undefined]

\* { ...taskData, id: uuidv4(), timeLogs: [], totalTimeSpent: 0, outputs: [],
\* labels: [] }: the fields of taskData, then the five the store sets itself;
\* actualStartDate, which the form never supplies, starts absent.
NewTask(id, taskData) ==
    LET own == [id |-> id, timeLogs |-> <<>>, totalTimeSpent |-> 0,
                outputs |-> <<>>, labels |-> <<>>]
    IN [f \in DOMAIN taskData \cup DOMAIN own \cup {"actualStartDate"} |->
           IF f \in DOMAIN own THEN own[f]
           ELSE IF f \in DOMAIN taskData THEN taskData[f]
           ELSE Undefined]

AddTaskList(ts, id, taskData) == Append(ts, NewTask(id, taskData))

\* { ...t, ...updates }
Merge(t, updates) ==
    [f \in DOMAIN t |-> IF f \in DOMAIN updates THEN updates[f] ELSE t[f]]

UpdateTaskList(ts, id, updates) ==
    [i \in 1..Len(ts) |-> IF ts[i].id = id THEN Merge(ts[i], updates) ELSE ts[i]]

\* Variant: the filter drops the task alone, without its children.
DeleteTaskKeepsChildren(t, id) == t.id # id

DeleteTaskKeeps(t, id) == t.id # id /\ t.parentId # id

DeleteTaskList(ts, id) == SelectSeq(ts, LAMBDA t : DeleteTaskKeeps(t, id))

\* Variant: the map callback misses its first branch, so a running task is
\* not paused when another one starts.
StartTimerTaskNoPause(task, taskId, now, logId) ==
    IF task.id = taskId
    THEN [task EXCEPT !.status = "IN_PROGRESS",
                      !.actualStartDate = OrElse(task.actualStartDate, now),
                      !.timeLogs = Append(task.timeLogs,
                          [id |-> logId, startTime |-> now, endTime |-> Undefined])]
    ELSE task

\* Variant: an IN_PROGRESS task is paused whether or not it has an open log.
StartTimerTaskPausesAll(task, taskId, now, logId) ==
    IF task.status = "IN_PROGRESS"
    THEN IF FindActiveLogIndex(task.timeLogs) # 0
         THEN CloseActiveLog(task, now)
         ELSE [task EXCEPT !.status = "PAUSED"]
    ELSE IF task.id = taskId
    THEN [task EXCEPT !.status = "IN_PROGRESS",
                      !.actualStartDate = OrElse(task.actualStartDate, now),
                      !.timeLogs = Append(task.timeLogs,
                          [id |-> logId, startTime |-> now, endTime |-> Undefined])]
    ELSE task

\* Variant: every start sets the actual start to now.
StartTimerTaskResetsStart(task, taskId, now, logId) ==
    IF task.status = "IN_PROGRESS" /\ FindActiveLogIndex(task.timeLogs) # 0
    THEN CloseActiveLog(task, now)
    ELSE IF task.id = taskId
    THEN [task EXCEPT !.status = "IN_PROGRESS",
                      !.actualStartDate = now,
                      !.timeLogs = Append(task.timeLogs,
                          [id |-> logId, startTime |-> now, endTime |-> Undefined])]
    ELSE task

StartTimerTask(task, taskId, now, logId) ==
    IF task.status = "IN_PROGRESS" /\ FindActiveLogIndex(task.timeLogs) # 0
    THEN CloseActiveLog(task, now)
    ELSE IF task.id = taskId
    THEN [task EXCEPT !.status = "IN_PROGRESS",
                      !.actualStartDate = OrElse(task.actualStartDate, now),
                      !.timeLogs = Append(task.timeLogs,
                          [id |-> logId, startTime |-> now, endTime |-> Undefined])]
    ELSE task

StartTimerList(ts, taskId, now, logId) ==
    [i \in 1..Len(ts) |-> StartTimerTask(ts[i], taskId, now, logId)]

\* Variant: the status is set to PAUSED outside the test for an open log.
StopTimerTaskAlwaysPauses(task, taskId, now) ==
    IF task.id = taskId
    THEN IF FindActiveLogIndex(task.timeLogs) # 0
         THEN CloseActiveLog(task, now)
         ELSE [task EXCEPT !.status = "PAUSED"]
    ELSE task

StopTimerTask(task, taskId, now) ==
    IF task.id = taskId /\ FindActiveLogIndex(task.timeLogs) # 0
    THEN CloseActiveLog(task, now)
    ELSE task

StopTimerList(ts, taskId, now) ==
    [i \in 1..Len(ts) |-> StopTimerTask(ts[i], taskId, now)]

\* Variant: the total counts the closed units alone.
WithLogsClosedOnly(task, updatedLogs) ==
    [task EXCEPT !.timeLogs = updatedLogs,
                 !.totalTimeSpent = ReduceTotal(
                     SelectSeq(updatedLogs, LAMBDA log : ~Falsy(log.endTime)), 0)]

WithLogs(task, updatedLogs) ==
    [task EXCEPT !.timeLogs = updatedLogs,
                 !.totalTimeSpent = ReduceTotal(updatedLogs, 0)]

ManualAddTimeLogList(ts, taskId, logId, start, end) ==
    [i \in 1..Len(ts) |->
        IF ts[i].id = taskId
        THEN WithLogs(ts[i], Append(ts[i].timeLogs,
                 [id |-> logId, startTime |-> start, endTime |-> end]))
        ELSE ts[i]]

UpdateTimeLogList(ts, taskId, logId, start, end) ==
    [i \in 1..Len(ts) |->
        IF ts[i].id = taskId
        THEN WithLogs(ts[i],
                 [k \in 1..Len(ts[i].timeLogs) |->
                    IF ts[i].timeLogs[k].id = logId
                    THEN [ts[i].timeLogs[k] EXCEPT !.startTime = start, !.endTime = end]
                    ELSE ts[i].timeLogs[k]])
        ELSE ts[i]]

DeleteTimeLogList(ts, taskId, logId) ==
    [i \in 1..Len(ts) |->
        IF ts[i].id = taskId
        THEN WithLogs(ts[i], SelectSeq(ts[i].timeLogs, LAMBDA l : l.id # logId))
        ELSE ts[i]]

\* ------------------------------------------------------------------ actions
\* last records the operation that produced the current state and its task id
\* argument; the clock holds the value Date.now() returned most recently.

\* Instants the time-log editor can submit: a start of at least 1, and an end
\* that may be 0 (handleSaveLog falls back to  editingLog.endTime || 0).
Instants == 0..MaxNow

Starts == 1..MaxNow

NoWalk ==
    /\ wkind = "none"
    /\ warg = Undefined
    /\ wpc = "idle"
    /\ wstack = <<>>
    /\ wresult = <<>>
    /\ wsteps = 0

Init ==
    /\ tasks = <<>>
    /\ mainCategories = DefaultMainCategories
    /\ subCategories = DefaultSubCategories
    /\ clock = 1
    /\ nextTaskId = 1
    /\ nextLogId = 1
    /\ last = [op |-> "init", id |-> Undefined]
    /\ NoWalk

addTask(taskData) ==
    /\ tasks' = AddTaskList(tasks, nextTaskId, taskData)
    /\ nextTaskId' = nextTaskId + 1
    /\ last' = [op |-> "addTask", id |-> nextTaskId]
    /\ UNCHANGED <<mainCategories, subCategories, clock, nextLogId>>
    /\ UNCHANGED walkVars

updateTask(id, updates) ==
    /\ tasks' = UpdateTaskList(tasks, id, updates)
    /\ last' = [op |-> "updateTask", id |-> id]
    /\ UNCHANGED <<mainCategories, subCategories, clock, nextTaskId, nextLogId>>
    /\ UNCHANGED walkVars

deleteTask(id) ==
    /\ tasks' = DeleteTaskList(tasks, id)
    /\ last' = [op |-> "deleteTask", id |-> id]
    /\ UNCHANGED <<mainCategories, subCategories, clock, nextTaskId, nextLogId>>
    /\ UNCHANGED walkVars

\* startTimer appends a log (and draws a uuid) only for a task that reaches
\* the second branch of the map callback.
StartTimerAppends(ts, taskId) ==
    \E i \in 1..Len(ts) :
        /\ ts[i].id = taskId
        /\ ~(ts[i].status = "IN_PROGRESS" /\ FindActiveLogIndex(ts[i].timeLogs) # 0)

startTimer(taskId) ==
    \E now \in clock..MaxNow :
        /\ tasks' = StartTimerList(tasks, taskId, now, nextLogId)
        /\ nextLogId' = IF StartTimerAppends(tasks, taskId) THEN nextLogId + 1 ELSE nextLogId
        /\ clock' = now
        /\ last' = [op |-> "startTimer", id |-> taskId]
        /\ UNCHANGED <<mainCategories, subCategories, nextTaskId>>
        /\ UNCHANGED walkVars

stopTimer(taskId) ==
    \E now \in clock..MaxNow :
        /\ tasks' = StopTimerList(tasks, taskId, now)
        /\ clock' = now
        /\ last' = [op |-> "stopTimer", id |-> taskId]
        /\ UNCHANGED <<mainCategories, subCategories, nextTaskId, nextLogId>>
        /\ UNCHANGED walkVars

manualAddTimeLog(taskId, start, end) ==
    /\ tasks' = ManualAddTimeLogList(tasks, taskId, nextLogId, start, end)
    /\ nextLogId' = IF taskId \in TaskIds(tasks) THEN nextLogId + 1 ELSE nextLogId
    /\ last' = [op |-> "manualAddTimeLog", id |-> taskId]
    /\ UNCHANGED <<mainCategories, subCategories, clock, nextTaskId>>
    /\ UNCHANGED walkVars

updateTimeLog(taskId, logId, start, end) ==
    /\ tasks' = UpdateTimeLogList(tasks, taskId, logId, start, end)
    /\ last' = [op |-> "updateTimeLog", id |-> taskId]
    /\ UNCHANGED <<mainCategories, subCategories, clock, nextTaskId, nextLogId>>
    /\ UNCHANGED walkVars

deleteTimeLog(taskId, logId) ==
    /\ tasks' = DeleteTimeLogList(tasks, taskId, logId)
    /\ last' = [op |-> "deleteTimeLog", id |-> taskId]
    /\ UNCHANGED <<mainCategories, subCategories, clock, nextTaskId, nextLogId>>
    /\ UNCHANGED walkVars

\* Inputs of createTask as the task form submits them.
TaskDataInputs(statuses, parents) ==
    [status : statuses,
     parentId : parents,
     mainCategory : {""},
     subCategory : {""}]

\* The counters of fresh ids are capped: an operation that would draw an id
\* beyond the cap is not taken.
LogIdLeft(maxLogs) == nextLogId <= maxLogs

\* ---- the whole store: task edits, timer, time-log edits
AllTaskIds == 1..MaxTasks

AllLogIds == 1..MaxLogs

Next ==
    \/ /\ nextTaskId <= MaxTasks
       /\ \E taskData \in TaskDataInputs({"TODO"}, {Undefined}) : addTask(taskData)
    \/ \E id \in AllTaskIds, s \in Statuses : updateTask(id, [status |-> s])
    \/ \E id \in AllTaskIds : deleteTask(id)
    \/ \E id \in AllTaskIds :
          /\ StartTimerAppends(tasks, id) => LogIdLeft(MaxLogs)
          /\ startTimer(id)
    \/ \E id \in AllTaskIds : stopTimer(id)
    \/ \E id \in TaskIds(tasks), start \in Starts, end \in Instants :
          /\ LogIdLeft(MaxLogs)
          /\ manualAddTimeLog(id, start, end)
    \/ \E id \in TaskIds(tasks), logId \in AllLogIds, start \in Starts, end \in Instants :
           updateTimeLog(id, logId, start, end)
    \/ \E id \in TaskIds(tasks), logId \in AllLogIds : deleteTimeLog(id, logId)

Spec == Init /\ [][Next]_vars

\* ---- the timer alone: tasks are created, timers started and stopped
NextTimer ==
    \/ /\ nextTaskId <= MaxTimerTasks
       /\ \E taskData \in TaskDataInputs(Statuses, {Undefined}) : addTask(taskData)
    \/ \E id \in 1..MaxTimerTasks :
          /\ StartTimerAppends(tasks, id) => LogIdLeft(MaxTimerLogs)
          /\ startTimer(id)
    \/ \E id \in 1..MaxTimerTasks : stopTimer(id)

SpecTimer == Init /\ [][NextTimer]_vars

\* ---- the task tree: tasks are created under a parent, reparented, deleted
NextTree ==
    \/ /\ nextTaskId <= MaxTreeTasks
       /\ \E taskData \in TaskDataInputs({"TODO"}, TaskIds(tasks) \cup {Undefined}) :
             addTask(taskData)
    \/ \E id \in TaskIds(tasks), p \in TaskIds(tasks) \cup {Undefined} :
          updateTask(id, [parentId |-> p])
    \/ \E id \in 1..MaxTreeTasks : deleteTask(id)

SpecTree == Init /\ [][NextTree]_vars

\* ------------------------------------------------------- hierarchy walks
\* The views walk the (already filtered) task list they are given.  Here the
\* list is the value of tasks: a parent id that names no task of the list is
\* a parent that was filtered out or deleted.

\* Deepest level at which the task list still descends (depth < 5 recurses).
MaxDepth == 5

\* Sizes of the lists the walks are run on: every parent relation over up to
\* MaxHier tasks, and chains of up to MaxChain tasks; a walk is cut off after
\* MaxSteps visits.
MaxHier == 3
MaxChain == 6
MaxSteps == 9

\* baseFiltered.filter(t => t.parentId === parentId)
ChildrenOf(ts, parentId) == SelectSeq(ts, LAMBDA t : t.parentId = parentId)

\* Variant: a task that is its own parent is taken for a root.
IsRootOrOwnParent(ts, t) ==
    t.parentId = Undefined \/ t.parentId \notin TaskIds(ts) \/ t.parentId = t.id

\* !t.parentId || !baseFiltered.find(p => p.id === t.parentId)
IsRoot(ts, t) == t.parentId = Undefined \/ t.parentId \notin TaskIds(ts)

RootsOf(ts) == SelectSeq(ts, LAMBDA t : IsRoot(ts, t))

RootWalks == {"list", "report", "wbs"}

\* A frame of buildHierarchy / renderTaskNode: the forEach over the children
\* of parent (over the roots in the bottom frame), at its i-th element.
RootFrame == [root |-> TRUE, parent |-> Undefined, prefix |-> <<>>, depth |-> 1, i |-> 1]

FrameItems(ts, f) == IF f.root THEN RootsOf(ts) ELSE ChildrenOf(ts, f.parent)

\* Variant: the index of a row is its position alone, without the prefix.
EmittedWithoutPrefix(kind, t, index, depth) ==
    IF kind = "list" THEN [id |-> t.id, indexDisplay |-> <<index[Len(index)]>>, depth |-> depth]
    ELSE IF kind = "report" THEN [id |-> t.id, indexDisplay |-> <<index[Len(index)]>>]
    ELSE [id |-> t.id, level |-> depth + 2]

\* What each walk pushes for a task: the task list keeps index and depth, the
\* output report the index, the WBS outline one line with level-many stars
\* (roots at level 3, their children from level 4).
Emitted(kind, t, index, depth) ==
    IF kind = "list" THEN [id |-> t.id, indexDisplay |-> index, depth |-> depth]
    ELSE IF kind = "report" THEN [id |-> t.id, indexDisplay |-> index]
    ELSE [id |-> t.id, level |-> depth + 2]

\* Variant: the task list descends at every depth, as the other walks do.
DescendsAtAnyDepth(kind, f) == TRUE

\* Whether the walk recurses into the task it just emitted: the roots' loop
\* always does; buildHierarchy of the task list only while depth < 5; the
\* output report and the WBS outline always.
Descends(kind, f) == f.root \/ kind # "list" \/ f.depth < MaxDepth

\* Frames whose forEach is exhausted return.
RECURSIVE Unwind(_, _)
Unwind(ts, stack) ==
    IF stack = <<>> THEN stack
    ELSE IF stack[Len(stack)].i > Len(FrameItems(ts, stack[Len(stack)]))
    THEN Unwind(ts, SubSeq(stack, 1, Len(stack) - 1))
    ELSE stack

\* One visit of a root walk: the next task of the innermost running forEach
\* is emitted and, if the walk descends, a frame for its children is entered.
RootWalkStep ==
    /\ wpc = "run"
    /\ wkind \in RootWalks
    /\ wsteps < MaxSteps
    /\ LET stack == Unwind(tasks, wstack)
       IN IF stack = <<>>
          THEN /\ wpc' = "done"
               /\ wstack' = stack
               /\ UNCHANGED <<wresult, wsteps>>
          ELSE LET f == stack[Len(stack)]
                   t == FrameItems(tasks, f)[f.i]
                   index == Append(f.prefix, f.i)
                   advanced == [stack EXCEPT ![Len(stack)].i = f.i + 1]
               IN /\ wresult' = Append(wresult, Emitted(wkind, t, index, f.depth))
                  /\ wstack' = IF Descends(wkind, f)
                               THEN Append(advanced,
                                      [root |-> FALSE, parent |-> t.id,
                                       prefix |-> index, depth |-> f.depth + 1, i |-> 1])
                               ELSE advanced
                  /\ wsteps' = wsteps + 1
                  /\ wpc' = "run"
    /\ UNCHANGED <<wkind, warg, storeVars>>

\* tasks.find(t => t.id === id): the first task with that id.
FindTask(ts, id) == ts[CHOOSE i \in 1..Len(ts) :
                          ts[i].id = id /\ \A j \in 1..(i - 1) : ts[j].id # id]

\* One iteration of the while loop of getTaskDepth; the frame holds current
\* and depth.
TaskDepthStep ==
    /\ wpc = "run"
    /\ wkind = "depth"
    /\ wsteps < MaxSteps
    /\ LET f == wstack[1]
           current == FindTask(tasks, f.current)
       IN IF current.parentId # Undefined /\ current.parentId \in TaskIds(tasks)
          THEN /\ wstack' = <<[current |-> current.parentId, depth |-> f.depth + 1]>>
               /\ wsteps' = wsteps + 1
               /\ UNCHANGED <<wpc, wresult>>
          ELSE /\ wpc' = "done"
               /\ wresult' = <<f.depth>>
               /\ UNCHANGED <<wstack, wsteps>>
    /\ UNCHANGED <<wkind, warg, storeVars>>

\* A call of getDescendantIds(taskId): children, ids = their ids, and the
\* position k of the forEach over the children.
DescendantsFrame(ts, taskId) ==
    LET children == ChildrenOf(ts, taskId)
        ids == [k \in 1..Len(children) |-> children[k].id]
    IN [children |-> ids, ids |-> ids, k |-> 1]

\* One call or one return of getDescendantIds; wsteps counts the calls.
DescendantsStep ==
    /\ wpc = "run"
    /\ wkind = "desc"
    /\ LET f == wstack[Len(wstack)]
       IN IF f.k <= Len(f.children)
          THEN /\ wsteps < MaxSteps
               /\ wstack' = Append(wstack, DescendantsFrame(tasks, f.children[f.k]))
               /\ wsteps' = wsteps + 1
               /\ UNCHANGED <<wpc, wresult>>
          ELSE IF Len(wstack) = 1
          THEN /\ wpc' = "done"
               /\ wresult' = f.ids
               /\ wstack' = <<>>
               /\ UNCHANGED wsteps
          ELSE LET caller == wstack[Len(wstack) - 1]
               IN /\ wstack' = Append(SubSeq(wstack, 1, Len(wstack) - 2),
                                      [caller EXCEPT !.ids = caller.ids \o f.ids,
                                                     !.k = caller.k + 1])
                  /\ UNCHANGED <<wpc, wresult, wsteps>>
    /\ UNCHANGED <<wkind, warg, storeVars>>

\* The task lists the walks are run on.
HierTask(id, parentId) ==
    NewTask(id, [status |-> "TODO", parentId |-> parentId,
                 mainCategory |-> "", subCategory |-> ""])

HierLists ==
    UNION {{[i \in 1..n |-> HierTask(i, pf[i])] :
               pf \in [1..n -> {Undefined} \cup (1..(n + 1))]} : n \in 1..MaxHier}

\* Forests of chains: each task after the first is a child of the task before
\* it in the list, or a root.
ChainLists ==
    UNION {{[i \in 1..n |-> HierTask(i, IF i > 1 /\ linked[i] THEN i - 1 ELSE Undefined)] :
               linked \in [1..n -> BOOLEAN]} : n \in (MaxHier + 1)..MaxChain}

InitHier ==
    /\ tasks \in HierLists \cup ChainLists
    /\ mainCategories = DefaultMainCategories
    /\ subCategories = DefaultSubCategories
    /\ clock = 1
    /\ nextTaskId = Len(tasks) + 1
    /\ nextLogId = 1
    /\ last = [op |-> "init", id |-> Undefined]
    /\ wresult = <<>>
    /\ wpc = "run"
    /\ \/ /\ wkind \in RootWalks
          /\ warg = Undefined
          /\ wstack = <<RootFrame>>
          /\ wsteps = 0
       \/ /\ wkind = "depth"
          /\ warg \in TaskIds(tasks)
          /\ wstack = <<[current |-> warg, depth |-> 1]>>
          /\ wsteps = 0
       \/ /\ wkind = "desc"
          /\ warg \in TaskIds(tasks)
          /\ wstack = <<DescendantsFrame(tasks, warg)>>
          /\ wsteps = 1

NextHier == RootWalkStep \/ TaskDepthStep \/ DescendantsStep

SpecHier == InitHier /\ [][NextHier]_vars

\* ------------------------------------------------ vocabulary of the claims
\* A Time Unit is open when the store's own test  !log.endTime  holds.
IsOpen(log) == Falsy(log.endTime)

OpenUnits(ts) ==
    UNION {{<<i, k>> : k \in {n \in 1..Len(ts[i].timeLogs) : IsOpen(ts[i].timeLogs[n])}} :
              i \in 1..Len(ts)}

InProgress(ts) == {i \in 1..Len(ts) : ts[i].status = "IN_PROGRESS"}

HasOpenUnit(task) == \E k \in 1..Len(task.timeLogs) : IsOpen(task.timeLogs[k])

HasClosedUnit(task) == \E k \in 1..Len(task.timeLogs) : ~IsOpen(task.timeLogs[k])

IndexOfTask(ts, id) == CHOOSE i \in 1..Len(ts) : ts[i].id = id

TaskOf(ts, id) == ts[IndexOfTask(ts, id)]

\* C1: from a store with no open Time Unit, after any sequence of startTimer
\* and stopTimer calls (any ids, repeated, of missing tasks) at most one Time
\* Unit in the whole store is open.
C1_AtMostOneOpenUnit == Cardinality(OpenUnits(tasks)) <= 1

\* C1 witness: a start took the timer over from another task: one task holds
\* a closed unit, another the open one.
C1_Witness ==
    /\ last.op = "startTimer"
    /\ \E i, j \in 1..Len(tasks) :
          i # j /\ HasClosedUnit(tasks[i]) /\ ~HasOpenUnit(tasks[i]) /\ HasOpenUnit(tasks[j])

\* C2: in every state reachable by the store's mutating operations at most
\* one task is IN_PROGRESS and at most one Time Unit is open.
C2_OneInProgressOneOpen ==
    /\ Cardinality(InProgress(tasks)) <= 1
    /\ Cardinality(OpenUnits(tasks)) <= 1

\* Sum of (end - start) over the units whose end is set.
RECURSIVE ClosedDuration(_)
ClosedDuration(logs) ==
    IF logs = <<>> THEN 0
    ELSE ClosedDuration(Tail(logs))
         + (IF Head(logs).endTime = Undefined THEN 0
            ELSE Head(logs).endTime - Head(logs).startTime)

\* C3: after any sequence of timer and time-log operations every task's
\* totalTimeSpent is the sum of (end - start) over its units with an end set;
\* an open unit contributes 0.
C3_TotalIsClosedDuration ==
    \A i \in 1..Len(tasks) :
        tasks[i].totalTimeSpent = ClosedDuration(tasks[i].timeLogs)

\* Units of a task that a step closed: open before, closed after.
ClosedByStep(before, after) ==
    {k \in 1..Len(before.timeLogs) :
        /\ k <= Len(after.timeLogs)
        /\ IsOpen(before.timeLogs[k])
        /\ ~IsOpen(after.timeLogs[k])}

\* C4: startTimer(A) immediately followed by startTimer(B), A # B both
\* existing: A is PAUSED, B is IN_PROGRESS, and the second call closed exactly
\* one unit of A, at the instant B's new unit starts.
C4_StartAThenStartB ==
    [][(/\ last.op = "startTimer"
        /\ last'.op = "startTimer"
        /\ last.id # last'.id
        /\ last.id \in TaskIds(tasks)
        /\ last'.id \in TaskIds(tasks))
       => LET A == TaskOf(tasks, last.id)
              A2 == TaskOf(tasks', last.id)
              B2 == TaskOf(tasks', last'.id)
          IN /\ A2.status = "PAUSED"
             /\ B2.status = "IN_PROGRESS"
             /\ Cardinality(ClosedByStep(A, A2)) = 1
             /\ \A k \in ClosedByStep(A, A2) :
                   /\ B2.timeLogs # <<>>
                   /\ A2.timeLogs[k].endTime = B2.timeLogs[Len(B2.timeLogs)].startTime
                   /\ IsOpen(B2.timeLogs[Len(B2.timeLogs)])]_vars

\* C5: startTimer(T) on a task that is IN_PROGRESS with an open unit closes
\* that unit at now and appends a new open unit starting at now: T stays
\* IN_PROGRESS, has one more unit, and its last unit is open.
C5_RestartRunningTask ==
    [][(/\ last'.op = "startTimer"
        /\ last'.id \in TaskIds(tasks)
        /\ TaskOf(tasks, last'.id).status = "IN_PROGRESS"
        /\ HasOpenUnit(TaskOf(tasks, last'.id)))
       => LET T == TaskOf(tasks, last'.id)
              T2 == TaskOf(tasks', last'.id)
          IN /\ T2.status = "IN_PROGRESS"
             /\ Len(T2.timeLogs) = Len(T.timeLogs) + 1
             /\ IsOpen(T2.timeLogs[Len(T2.timeLogs)])
             /\ T2.timeLogs[Len(T2.timeLogs)].startTime = clock'
             /\ \A k \in ClosedByStep(T, T2) : T2.timeLogs[k].endTime = clock']_vars

\* C6: stopTimer(id) on a task without an open unit, or on an id no task has,
\* leaves tasks (status, units, totals) and both vocabularies unchanged.
C6_StopWithoutOpenUnitIsNoOp ==
    [][(/\ last'.op = "stopTimer"
        /\ \/ last'.id \notin TaskIds(tasks)
           \/ ~HasOpenUnit(TaskOf(tasks, last'.id)))
       => /\ tasks' = tasks
          /\ mainCategories' = mainCategories
          /\ subCategories' = subCategories]_vars

\* C6 witness: stopTimer was called on an existing task that has units, none
\* of them open, while another task is running.
C6_Witness ==
    /\ last.op = "stopTimer"
    /\ last.id \in TaskIds(tasks)
    /\ TaskOf(tasks, last.id).status = "PAUSED"
    /\ HasClosedUnit(TaskOf(tasks, last.id))
    /\ ~HasOpenUnit(TaskOf(tasks, last.id))
    /\ Cardinality(OpenUnits(tasks)) = 1

\* Positions of the tasks deleteTask(id) is said to keep.
KeptPositions(ts, id) ==
    {i \in 1..Len(ts) : ts[i].id # id /\ ts[i].parentId # id}

\* C7: after deleteTask(id) the list is the previous list, in order, minus the
\* tasks whose id or parentId is id; the rest is unchanged, so a grandchild
\* stays with its dangling parentId.
C7_DeleteOneLevel ==
    [][last'.op = "deleteTask"
       => LET keep == KeptPositions(tasks, last'.id)
          IN /\ Len(tasks') = Cardinality(keep)
             /\ \A i \in keep :
                   tasks'[Cardinality({j \in keep : j <= i})] = tasks[i]]_vars

\* C7 witness: a delete removed a task and its child and left the grandchild,
\* whose parentId now names no task.
C7_Witness ==
    /\ last.op = "deleteTask"
    /\ \E i \in 1..Len(tasks) :
          /\ tasks[i].parentId # Undefined
          /\ tasks[i].parentId # last.id
          /\ tasks[i].parentId \notin TaskIds(tasks)

\* The task has at least n ancestors inside the list (a parent cycle has
\* arbitrarily many).
RECURSIVE HasAncestors(_, _, _)
HasAncestors(ts, id, n) ==
    IF n = 0 THEN TRUE
    ELSE /\ id \in TaskIds(ts)
         /\ TaskOf(ts, id).parentId # Undefined
         /\ TaskOf(ts, id).parentId \in TaskIds(ts)
         /\ HasAncestors(ts, TaskOf(ts, id).parentId, n - 1)

\* The task is its own ancestor through a parent chain of at least minLen links.
OnCycle(ts, id, minLen) ==
    \E n \in minLen..Len(ts) :
        /\ HasAncestors(ts, id, n)
        /\ \E path \in [0..n -> TaskIds(ts)] :
              /\ path[0] = id
              /\ path[n] = id
              /\ \A k \in 1..n : TaskOf(ts, path[k - 1]).parentId = path[k]
              /\ \A k \in 1..(n - 1) : path[k] # id

\* C8: every task the Hierarchy Indexer emits, in the task list and in the
\* output report, has depth 1..5 and an index of at most 5 components; a task
\* with more than 4 filtered ancestors is not emitted.
C8_EmittedWithinFiveLevels ==
    wkind \in {"list", "report"}
    => \A k \in 1..Len(wresult) :
          /\ Len(wresult[k].indexDisplay) \in 1..5
          /\ wkind = "list" => wresult[k].depth \in 1..5
          /\ ~HasAncestors(tasks, wresult[k].id, 5)

\* C9: for every task list and parent relation, self-parents and cycles
\* included, the walks that start from the roots (task list, output report,
\* WBS outline) terminate and emit each task at most once.
C9_RootWalksTerminate ==
    wkind \in RootWalks
    => /\ \A a, b \in 1..Len(wresult) : a # b => wresult[a].id # wresult[b].id
       /\ wsteps = Len(wresult)
       /\ wsteps <= Len(tasks)
       /\ wpc = "done" \/ ENABLED RootWalkStep

\* C9 witness: a root walk ran to its end over a list that holds a parent
\* cycle of two or more tasks, and emitted the tasks outside the cycle.
C9_Witness ==
    /\ wkind \in RootWalks
    /\ wpc = "done"
    /\ wresult # <<>>
    /\ \E id \in TaskIds(tasks) : OnCycle(tasks, id, 2)

\* C10: the per-task walks (getTaskDepth, getDescendantIds) stop on
\* revisiting a task or on a failed parent lookup, after at most
\* number-of-tasks steps, whatever the parent relation.
C10_PerTaskWalksStop ==
    wkind \in {"depth", "desc"}
    => /\ wsteps <= Len(tasks)
       /\ wpc = "done" \/ ENABLED (TaskDepthStep \/ DescendantsStep)

\* ------------------------------------------------------------- task form
\* The form's pure helpers over the whole task list, and its submit.

\* getDescendantIds: the ids of the children, then each child's descendants.
RECURSIVE getDescendantIds(_, _)
getDescendantIds(ts, taskId) ==
    LET children == ChildrenOf(ts, taskId)
        RECURSIVE OfChildren(_)
        OfChildren(i) ==
            IF i > Len(children) THEN <<>>
            ELSE getDescendantIds(ts, children[i].id) \o OfChildren(i + 1)
    IN [i \in 1..Len(children) |-> children[i].id] \o OfChildren(1)

SeqToSet(s) == {s[i] : i \in 1..Len(s)}

\* Variant: the candidate list leaves out the edited task alone.
validParentCandidatesButSelf(ts, initialId) ==
    IF initialId = Undefined THEN ts
    ELSE SelectSeq(ts, LAMBDA t : t.id # initialId)

\* validParentCandidates; initialId is Undefined when the form creates a task.
validParentCandidates(ts, initialId) ==
    IF initialId = Undefined THEN ts
    ELSE LET descendants == SeqToSet(getDescendantIds(ts, initialId))
         IN SelectSeq(ts, LAMBDA t : t.id # initialId /\ t.id \notin descendants)

\* Values the parent selector can hold at submit: none, a candidate, or the
\* value the form was opened with (the edited task's own parentId).
ParentOptions(ts, initialId) ==
    {Undefined}
        \cup TaskIds(validParentCandidates(ts, initialId))
        \cup (IF initialId \in TaskIds(ts) THEN {TaskOf(ts, initialId).parentId} ELSE {})

\* handleSubmit: updateTask for an edited task, addTask otherwise.
handleSubmit(initialId, taskData) ==
    /\ taskData.parentId \in ParentOptions(tasks, initialId)
    /\ IF initialId = Undefined
          THEN addTask(taskData)
          ELSE updateTask(initialId, taskData)

MaxFormTasks == 4

\* ---- the task form and the delete button
NextForm ==
    \/ /\ nextTaskId <= MaxFormTasks
       /\ \E taskData \in TaskDataInputs({"TODO"}, TaskIds(tasks) \cup {Undefined}) :
             handleSubmit(Undefined, taskData)
    \/ \E id \in TaskIds(tasks) :
          \E taskData \in TaskDataInputs({"TODO"}, TaskIds(tasks) \cup {Undefined}) :
             handleSubmit(id, taskData)
    \/ \E id \in 1..MaxFormTasks : deleteTask(id)

SpecForm == Init /\ [][NextForm]_vars

\* C11: from the empty store, after any creations (root or under an existing
\* parent), form edits that pick a parent from the valid-parent candidates,
\* and deleteTask calls, no task is its own ancestor.
C11_NoTaskIsOwnAncestor ==
    \A id \in TaskIds(tasks) : ~OnCycle(tasks, id, 1)

\* C11 witness: an edit moved a task that has a child under another task, so
\* the candidate list had a descendant to leave out.
C11_Witness ==
    /\ last.op = "updateTask"
    /\ last.id \in TaskIds(tasks)
    /\ TaskOf(tasks, last.id).parentId \in TaskIds(tasks)
    /\ ChildrenOf(tasks, last.id) # <<>>
    /\ Len(validParentCandidates(tasks, last.id)) < Len(tasks) - 1

\* ------------------------------------------------- task list: listed rows
\* The status filter of the task list; an empty selection filters nothing.
baseFiltered(ts, filterStatus) ==
    SelectSeq(ts, LAMBDA t : filterStatus = {} \/ t.status \in filterStatus)

\* buildHierarchy of the task list as a function: the rows below parentId.
RECURSIVE buildHierarchy(_, _, _)
buildHierarchy(filtered, parentId, depth) ==
    LET children == ChildrenOf(filtered, parentId)
        RECURSIVE Rows(_)
        Rows(i) ==
            IF i > Len(children) THEN <<>>
            ELSE <<[id |-> children[i].id, depth |-> depth]>>
                 \o (IF depth < MaxDepth
                        THEN buildHierarchy(filtered, children[i].id, depth + 1)
                        ELSE <<>>)
                 \o Rows(i + 1)
    IN Rows(1)

\* processedTasks: the rows of the list, each with its depth in the filtered view.
processedTasks(ts, filterStatus) ==
    LET filtered == baseFiltered(ts, filterStatus)
        rootTasks == RootsOf(filtered)
        RECURSIVE Rows(_)
        Rows(i) ==
            IF i > Len(rootTasks) THEN <<>>
            ELSE <<[id |-> rootTasks[i].id, depth |-> 1]>>
                 \o buildHierarchy(filtered, rootTasks[i].id, 2)
                 \o Rows(i + 1)
    IN Rows(1)

\* The sub-task button of a listed row, enabled while the row's depth is
\* below 5, opens the form with the row as parent and the parent's categories.
handleCreateSubTask(filterStatus, taskId) ==
    /\ \E k \in 1..Len(processedTasks(tasks, filterStatus)) :
          /\ processedTasks(tasks, filterStatus)[k].id = taskId
          /\ processedTasks(tasks, filterStatus)[k].depth < MaxDepth
    /\ handleSubmit(Undefined,
                    [status |-> "TODO",
                     parentId |-> taskId,
                     mainCategory |-> TaskOf(tasks, taskId).mainCategory,
                     subCategory |-> TaskOf(tasks, taskId).subCategory])

MaxDepthTasks == 6

\* Edits are explored on lists of at most this many tasks.
MaxEditTasks == 4

\* The list's default status filter, and no status filter.
FilterStatuses == {{"TODO", "IN_PROGRESS", "PAUSED"}, {}}

\* ---- the task list and the task form, without delete
NextDepth ==
    \/ /\ nextTaskId <= MaxDepthTasks
       /\ \E taskData \in TaskDataInputs({"TODO", "DONE"}, TaskIds(tasks) \cup {Undefined}) :
             handleSubmit(Undefined, taskData)
    \/ /\ nextTaskId <= MaxDepthTasks
       /\ \E filterStatus \in FilterStatuses, id \in TaskIds(tasks) :
             handleCreateSubTask(filterStatus, id)
    \/ /\ Len(tasks) <= MaxEditTasks
       /\ \E id \in TaskIds(tasks) :
             \E taskData \in TaskDataInputs({TaskOf(tasks, id).status},
                                            TaskIds(tasks) \cup {Undefined}) :
                handleSubmit(id, taskData)

SpecDepth == Init /\ [][NextDepth]_vars

\* C12: in every state reachable through the task list and the task form
\* (root task, sub-task from a listed row under any filter, task with a parent
\* picked in the form, reparent to a valid candidate) every task's 1-based
\* depth along its parent chain is at most 5.
C12_DepthAtMostFive ==
    \A id \in TaskIds(tasks) : ~HasAncestors(tasks, id, MaxDepth)

\* ------------------------------------------------- range-scoped views
\* Instants are counted in half minutes, so a minute is two of them.
MsPerMinute == 2

Max(a, b) == IF a >= b THEN a ELSE b

Min(a, b) == IF a <= b THEN a ELSE b

\* Math.round(value / (1000 * 60)): halves round towards plus infinity.
RoundMinutes(value) == (2 * value + MsPerMinute) \div (2 * MsPerMinute)

\* The sentinel bucket of a task without category.
OtherCategory == "Other"

CategoryKey(c) == IF c = "" THEN OtherCategory ELSE c

\* Variant: the entry is set to the duration, without what it held.
MapAddOverwrites(map, key, duration) ==
    IF \E k \in 1..Len(map) : map[k].name = key
    THEN [k \in 1..Len(map) |->
            IF map[k].name = key THEN [name |-> key, value |-> duration] ELSE map[k]]
    ELSE Append(map, [name |-> key, value |-> duration])

\* map.set(key, (map.get(key) || 0) + duration) on a Map kept as the sequence
\* of its entries in insertion order.
MapAdd(map, key, duration) ==
    IF \E k \in 1..Len(map) : map[k].name = key
    THEN [k \in 1..Len(map) |->
            IF map[k].name = key
            THEN [name |-> key, value |-> map[k].value + duration]
            ELSE map[k]]
    ELSE Append(map, [name |-> key, value |-> duration])

\* The guard of the dashboard's accumulation.
StatsIncludes(log, start, end, now) ==
    /\ Max(log.startTime, start) < end
    /\ Min(OrElse(log.endTime, now), end) > start

\* One pass of the inner forEach: the accumulators after the k first logs.
RECURSIVE StatsLogs(_, _, _, _, _, _)
StatsLogs(acc, task, k, start, end, now) ==
    IF k > Len(task.timeLogs) THEN acc
    ELSE LET log == task.timeLogs[k]
             duration == Min(OrElse(log.endTime, now), end) - Max(log.startTime, start)
             next == IF StatsIncludes(log, start, end, now)
                     THEN [totalMs |-> acc.totalMs + duration,
                           mainMap |-> MapAdd(acc.mainMap, CategoryKey(task.mainCategory), duration),
                           subMap |-> MapAdd(acc.subMap, CategoryKey(task.subCategory), duration)]
                     ELSE acc
         IN StatsLogs(next, task, k + 1, start, end, now)

RECURSIVE StatsTasks(_, _, _, _, _, _)
StatsTasks(acc, ts, i, start, end, now) ==
    IF i > Len(ts) THEN acc
    ELSE StatsTasks(StatsLogs(acc, ts[i], 1, start, end, now), ts, i + 1, start, end, now)

formatData(map) ==
    SelectSeq([k \in 1..Len(map) |->
                  [name |-> map[k].name, value |-> RoundMinutes(map[k].value)]],
              LAMBDA d : d.value > 0)

\* The dashboard's memo: the accumulators and what the charts are given.
StatsOf(ts, start, end, now) ==
    LET acc == StatsTasks([totalMs |-> 0, mainMap |-> <<>>, subMap |-> <<>>],
                          ts, 1, start, end, now)
    IN [totalMs |-> acc.totalMs,
        mainMap |-> acc.mainMap,
        subMap |-> acc.subMap,
        stats |-> [main |-> formatData(acc.mainMap), sub |-> formatData(acc.subMap)],
        totalMinutes |-> RoundMinutes(acc.totalMs)]

\* activeTasksInRange of the output report.
OutputActive(task, startTs, endTs, now) ==
    \E k \in 1..Len(task.timeLogs) :
        Max(task.timeLogs[k].startTime, startTs)
            < Min(OrElse(task.timeLogs[k].endTime, now), endTs)

activeTasksInRange(ts, startTs, endTs, now) ==
    SelectSeq(ts, LAMBDA task : OutputActive(task, startTs, endTs, now))

\* getTaskDepth of the weekly report as a function (it loops on a parent cycle).
RECURSIVE getTaskDepth(_, _)
getTaskDepth(ts, task) ==
    IF Falsy(task.parentId) \/ task.parentId \notin TaskIds(ts) THEN 1
    ELSE 1 + getTaskDepth(ts, FindTask(ts, task.parentId))

hasEstimatedInRange(task, startTs, endTs) ==
    /\ ~Falsy(task.estimatedStartDate)
    /\ task.estimatedStartDate <= endTs
    /\ Falsy(task.estimatedEndDate) \/ task.estimatedEndDate >= startTs

hasActualInRange(task, startTs, endTs, now) ==
    \E k \in 1..Len(task.timeLogs) :
        /\ task.timeLogs[k].startTime <= endTs
        /\ OrElse(task.timeLogs[k].endTime, now) >= startTs

\* activeTasks of the weekly report.
activeTasks(ts, selectedLevels, startTs, endTs, now) ==
    SelectSeq(ts, LAMBDA task :
        /\ getTaskDepth(ts, task) \in selectedLevels
        /\ \/ hasEstimatedInRange(task, startTs, endTs)
           \/ hasActualInRange(task, startTs, endTs, now))

MaxRangeTasks == 2

MaxRangeInstant == 4

RangeInstants == 1..MaxRangeInstant

\* A task of the range views: at most one time unit, as the timer and the
\* time-log editor can leave it (open since an instant not after now, closed,
\* or closed before its start), and the estimated dates the form stores.
RangeTask(id, cat, est, logs) ==
    [id |-> id,
     status |-> "TODO",
     parentId |-> Undefined,
     mainCategory |-> cat[1],
     subCategory |-> cat[2],
     estimatedStartDate |-> est,
     estimatedEndDate |-> Undefined,
     actualStartDate |-> Undefined,
     timeLogs |-> logs,
     totalTimeSpent |-> IF logs = <<>> \/ Falsy(logs[1].endTime) THEN 0
                        ELSE logs[1].endTime - logs[1].startTime]

RangeLogs(id) ==
    {<<>>} \cup {<<log>> : log \in [id : {id}, startTime : RangeInstants,
                                    endTime : {Undefined} \cup RangeInstants]}

RangeCategories == {<<"Development", "Frontend">>, <<"", "">>}

RangeTasks(id) ==
    {RangeTask(id, cat, est, logs) :
        cat \in RangeCategories, est \in {Undefined, 2}, logs \in RangeLogs(id)}

RangeLists ==
    UNION {{ts \in [1..n -> UNION {RangeTasks(id) : id \in 1..n}] :
                \A i \in 1..n : ts[i].id = i} :
           n \in 1..MaxRangeTasks}

InitRange ==
    /\ tasks \in RangeLists
    /\ mainCategories = DefaultMainCategories
    /\ subCategories = DefaultSubCategories
    /\ clock \in RangeInstants
    /\ \A i \in 1..Len(tasks) : \A k \in 1..Len(tasks[i].timeLogs) :
          Falsy(tasks[i].timeLogs[k].endTime) => tasks[i].timeLogs[k].startTime <= clock
    /\ nextTaskId = Len(tasks) + 1
    /\ nextLogId = Len(tasks) + 1
    /\ last = [op |-> "init", id |-> Undefined]
    /\ NoWalk

\* A view computed over the store at the instant clock, for a window of
\* startOfDay / endOfDay instants.
RenderView(kind, arg, result) ==
    /\ wpc = "idle"
    /\ wkind' = kind
    /\ warg' = arg
    /\ wresult' = result
    /\ wpc' = "done"
    /\ last' = [op |-> kind, id |-> Undefined]
    /\ UNCHANGED <<tasks, mainCategories, subCategories, clock, nextTaskId, nextLogId>>
    /\ UNCHANGED <<wstack, wsteps>>

Stats(start, end) ==
    RenderView("Stats", [start |-> start, end |-> end],
               StatsOf(tasks, start, end, clock))

OutputReportPage(startTs, endTs) ==
    RenderView("OutputReportPage", [start |-> startTs, end |-> endTs],
               activeTasksInRange(tasks, startTs, endTs, clock))

WeeklyReportPage(selectedLevels, startTs, endTs) ==
    RenderView("WeeklyReportPage",
               [start |-> startTs, end |-> endTs, levels |-> selectedLevels],
               activeTasks(tasks, selectedLevels, startTs, endTs, clock))

\* The level chips of the weekly report: all five levels, or level 1 toggled off.
LevelSelections == {1..MaxDepth, 2..MaxDepth}

\* ---- the range-scoped views over a task list
NextRange ==
    \/ \E start \in RangeInstants, end \in RangeInstants :
          start < end /\ Stats(start, end)
    \/ \E start \in RangeInstants, end \in RangeInstants :
          start < end /\ OutputReportPage(start, end)
    \/ \E levels \in LevelSelections, start \in RangeInstants, end \in RangeInstants :
          start < end /\ WeeklyReportPage(levels, start, end)

SpecRange == InitRange /\ [][NextRange]_vars

\* What a time unit is said to contribute to a window: its clipped length.
ClippedDuration(log, ws, we, now) ==
    Max(0, Min(OrElse(log.endTime, now), we) - Max(log.startTime, ws))

RECURSIVE SumClippedLogs(_, _, _, _)
SumClippedLogs(logs, ws, we, now) ==
    IF logs = <<>> THEN 0
    ELSE ClippedDuration(Head(logs), ws, we, now) + SumClippedLogs(Tail(logs), ws, we, now)

\* The clipped lengths of the units of the tasks that pass the test InBucket.
RECURSIVE SumClipped(_, _, _, _, _)
SumClipped(ts, InBucket(_), ws, we, now) ==
    IF ts = <<>> THEN 0
    ELSE (IF InBucket(Head(ts)) THEN SumClippedLogs(Head(ts).timeLogs, ws, we, now) ELSE 0)
         + SumClipped(Tail(ts), InBucket, ws, we, now)

MapGet(map, key) ==
    IF \E k \in 1..Len(map) : map[k].name = key
    THEN (CHOOSE e \in SeqToSet(map) : e.name = key).value
    ELSE 0

CategoryKeys(ts) ==
    {CategoryKey(ts[i].mainCategory) : i \in 1..Len(ts)}
        \cup {CategoryKey(ts[i].subCategory) : i \in 1..Len(ts)}

\* C13: for every task list and window the dashboard's milliseconds of a
\* category are the sum of the clipped lengths max(0, min(end or now, we) -
\* max(start, ws)) of the units of the tasks in that category, and no unit
\* contributes a negative amount.
C13_CategoryTotalsAreClippedSums ==
    (last.op = "Stats" /\ wpc = "done")
    => /\ \A key \in CategoryKeys(tasks) :
             /\ MapGet(wresult.mainMap, key)
                   = SumClipped(tasks, LAMBDA t : CategoryKey(t.mainCategory) = key,
                                warg.start, warg.end, clock)
             /\ MapGet(wresult.subMap, key)
                   = SumClipped(tasks, LAMBDA t : CategoryKey(t.subCategory) = key,
                                warg.start, warg.end, clock)
       /\ \A i \in 1..Len(tasks) : \A k \in 1..Len(tasks[i].timeLogs) :
             StatsIncludes(tasks[i].timeLogs[k], warg.start, warg.end, clock)
             => Min(OrElse(tasks[i].timeLogs[k].endTime, clock), warg.end)
                   - Max(tasks[i].timeLogs[k].startTime, warg.start) >= 0

\* The activity test as stated: some unit's clipped interval is not empty.
OverlapsWindow(task, ws, we, now) ==
    \E k \in 1..Len(task.timeLogs) :
        Max(task.timeLogs[k].startTime, ws)
            < Min(OrElse(task.timeLogs[k].endTime, now), we)

ListedIds(rows) == {rows[k].id : k \in 1..Len(rows)}

\* C14: in the output report and in the weekly WBS/Gantt report a task (of a
\* selected level) is active in the window exactly when one of its units
\* satisfies max(start, ws) < min(end or now, we); a task whose only unit ends
\* at ws or starts at we is not active.
C14_ActiveIffUnitOverlaps ==
    (last.op \in {"OutputReportPage", "WeeklyReportPage"} /\ wpc = "done")
    => \A i \in 1..Len(tasks) :
          tasks[i].id \in ListedIds(wresult)
          <=> /\ OverlapsWindow(tasks[i], warg.start, warg.end, clock)
              /\ last.op = "WeeklyReportPage" => getTaskDepth(tasks, tasks[i]) \in warg.levels

\* ------------------------------------------------------- category manager
\* [...new Set(list)]: the first occurrence of each string, in order.
RECURSIVE Dedup(_)
Dedup(list) ==
    IF list = <<>> THEN <<>>
    ELSE LET init == Dedup(SubSeq(list, 1, Len(list) - 1))
             x == list[Len(list)]
         IN IF x \in SeqToSet(init) THEN init ELSE Append(init, x)

AddCategoryList(list, name) == Dedup(Append(list, name))

RenameCategoryList(list, old, newVal) ==
    [k \in 1..Len(list) |-> IF list[k] = old THEN newVal ELSE list[k]]

\* Variant: the rename leaves the tasks alone.
RenameTaskCategoryNoCascade(ts, field, old, newVal) == ts

\* tasks.map(t => t[field] === old ? { ...t, [field]: newVal } : t)
RenameTaskCategory(ts, field, old, newVal) ==
    [i \in 1..Len(ts) |->
        IF ts[i][field] = old THEN [ts[i] EXCEPT ![field] = newVal] ELSE ts[i]]

DeleteCategoryKeeps(c, name) == c # name

DeleteCategoryList(list, name) == SelectSeq(list, LAMBDA c : DeleteCategoryKeeps(c, name))

addMainCategory(name) ==
    /\ mainCategories' = AddCategoryList(mainCategories, name)
    /\ last' = [op |-> "addMainCategory", id |-> <<name>>]
    /\ UNCHANGED <<tasks, subCategories, clock, nextTaskId, nextLogId>>
    /\ UNCHANGED walkVars

updateMainCategory(old, newVal) ==
    /\ mainCategories' = RenameCategoryList(mainCategories, old, newVal)
    /\ tasks' = RenameTaskCategory(tasks, "mainCategory", old, newVal)
    /\ last' = [op |-> "updateMainCategory", id |-> <<old, newVal>>]
    /\ UNCHANGED <<subCategories, clock, nextTaskId, nextLogId>>
    /\ UNCHANGED walkVars

\* Variant: the delete also blanks the category of the tasks that carry it.
deleteMainCategoryAndTasks(name) ==
    /\ mainCategories' = DeleteCategoryList(mainCategories, name)
    /\ tasks' = RenameTaskCategory(tasks, "mainCategory", name, "")
    /\ last' = [op |-> "deleteMainCategory", id |-> <<name>>]
    /\ UNCHANGED <<subCategories, clock, nextTaskId, nextLogId>>
    /\ UNCHANGED walkVars

deleteMainCategory(name) ==
    /\ mainCategories' = DeleteCategoryList(mainCategories, name)
    /\ last' = [op |-> "deleteMainCategory", id |-> <<name>>]
    /\ UNCHANGED <<tasks, subCategories, clock, nextTaskId, nextLogId>>
    /\ UNCHANGED walkVars

addSubCategory(name) ==
    /\ subCategories' = AddCategoryList(subCategories, name)
    /\ last' = [op |-> "addSubCategory", id |-> <<name>>]
    /\ UNCHANGED <<tasks, mainCategories, clock, nextTaskId, nextLogId>>
    /\ UNCHANGED walkVars

updateSubCategory(old, newVal) ==
    /\ subCategories' = RenameCategoryList(subCategories, old, newVal)
    /\ tasks' = RenameTaskCategory(tasks, "subCategory", old, newVal)
    /\ last' = [op |-> "updateSubCategory", id |-> <<old, newVal>>]
    /\ UNCHANGED <<mainCategories, clock, nextTaskId, nextLogId>>
    /\ UNCHANGED walkVars

deleteSubCategory(name) ==
    /\ subCategories' = DeleteCategoryList(subCategories, name)
    /\ last' = [op |-> "deleteSubCategory", id |-> <<name>>]
    /\ UNCHANGED <<tasks, mainCategories, clock, nextTaskId, nextLogId>>
    /\ UNCHANGED walkVars

\* String.prototype.trim on the strings typed into the manager.
Trim(s) ==
    CASE s = " Review " -> "Review"
      [] s = " " -> ""
      [] OTHER -> s

\* saveEdit: nothing happens for a blank name; the new name is trimmed.
saveEdit(type, oldName, newName) ==
    /\ Trim(newName) # ""
    /\ IF type = "main"
          THEN updateMainCategory(oldName, Trim(newName))
          ELSE updateSubCategory(oldName, Trim(newName))

MaxCategoryTasks == 2

\* Names the manager's rows are edited and deleted on, and the strings typed.
MainEdited == {"Development", "Review"}

SubEdited == {"Frontend", "Review"}

TypedNew == {"Review"}

TypedRename == {" Review ", "Meeting", "Backend", " "}

\* The form's category selects: the empty default, or a listed primary and
\* secondary category among two seeded ones each.
CategoryChoices ==
    {<<"", "">>}
        \cup {<<m, s>> \in SeqToSet(mainCategories) \X SeqToSet(subCategories) :
                 m \in {"Development", "Meeting"} /\ s \in {"Frontend", "Backend"}}

\* ---- the category manager, with tasks that carry categories
NextCategory ==
    \/ /\ nextTaskId <= MaxCategoryTasks
       /\ \E c \in CategoryChoices :
             addTask([status |-> "TODO", parentId |-> Undefined,
                      mainCategory |-> c[1], subCategory |-> c[2]])
    \/ \E name \in TypedNew : addMainCategory(name)
    \/ \E name \in TypedNew : addSubCategory(name)
    \/ \E old \in SeqToSet(mainCategories) \cap MainEdited, newName \in TypedRename \ {"Backend"} :
          saveEdit("main", old, newName)
    \/ \E old \in SeqToSet(subCategories) \cap SubEdited, newName \in TypedRename \ {"Meeting"} :
          saveEdit("sub", old, newName)
    \/ \E name \in SeqToSet(mainCategories) \cap MainEdited : deleteMainCategory(name)
    \/ \E name \in SeqToSet(subCategories) \cap SubEdited : deleteSubCategory(name)

SpecCategory == Init /\ [][NextCategory]_vars

\* What a rename old -> newVal of one vocabulary is said to do to the tasks'
\* field and to the vocabulary, everything else being left as it was.
RenamedAsStated(field, before, after, ts, ts2, old, newVal) ==
    /\ Len(ts2) = Len(ts)
    /\ \A i \in 1..Len(ts) :
          /\ ts[i][field] = old => ts2[i][field] = newVal
          /\ ts2[i][field] # old
          /\ ts[i][field] # old => ts2[i] = ts[i]
          /\ \A f \in DOMAIN ts[i] \ {field} : ts2[i][f] = ts[i][f]
    /\ Len(after) = Len(before)
    /\ \A k \in 1..Len(before) :
          after[k] = IF before[k] = old THEN newVal ELSE before[k]

\* C15: renaming a primary category old -> new (old # new) gives new to every
\* task that had old, leaves no task with old, puts new at old's position in
\* the vocabulary, and changes no other field, task, or the secondary
\* vocabulary; symmetrically for a secondary category.
C15_RenameCascades ==
    [][/\ (last'.op = "updateMainCategory" /\ last'.id[1] # last'.id[2])
          => /\ RenamedAsStated("mainCategory", mainCategories, mainCategories',
                                tasks, tasks', last'.id[1], last'.id[2])
             /\ subCategories' = subCategories
       /\ (last'.op = "updateSubCategory" /\ last'.id[1] # last'.id[2])
          => /\ RenamedAsStated("subCategory", subCategories, subCategories',
                                tasks, tasks', last'.id[1], last'.id[2])
             /\ mainCategories' = mainCategories]_vars

\* C15 witness: a primary rename has run with old # new; one task carries the
\* new name, which only a rename can give it, the vocabulary lists the new
\* name, and another task carries a different category.
C15_Witness ==
    /\ last.op = "updateMainCategory"
    /\ last.id = <<"Development", "Review">>
    /\ "Review" \in SeqToSet(mainCategories)
    /\ \E i, j \in 1..Len(tasks) :
          /\ tasks[i].mainCategory = "Review"
          /\ tasks[j].mainCategory = "Meeting"

NoDuplicates(list) ==
    \A a, b \in 1..Len(list) : a # b => list[a] # list[b]

\* C16: from the seeded defaults, after any sequence of category add, rename
\* and delete operations, neither vocabulary contains a string twice.
C16_VocabulariesHaveNoDuplicates ==
    NoDuplicates(mainCategories) /\ NoDuplicates(subCategories)

\* after is before without every occurrence of name, the rest in order.
IsListWithout(before, after, name) ==
    LET keep == {k \in 1..Len(before) : before[k] # name}
    IN /\ Len(after) = Cardinality(keep)
       /\ \A k \in keep : after[Cardinality({j \in keep : j <= k})] = before[k]

JsonArray(items) == [isArray |-> TRUE, truthy |-> TRUE, items |-> items]

JsonOther(truthy) == [isArray |-> FALSE, truthy |-> truthy, items |-> <<>>]

\* The optional properties of a task and of a time unit.
OptionalFields == {"parentId", "actualStartDate", "endTime"}

\* JSON.stringify leaves out the properties whose value is undefined.
StringifyObject(obj) ==
    [f \in {g \in DOMAIN obj : ~(g \in OptionalFields /\ obj[g] = Undefined)} |-> obj[f]]

StringifyTask(t) ==
    LET logs == [k \in 1..Len(t.timeLogs) |-> StringifyObject(t.timeLogs[k])]
    IN StringifyObject([t EXCEPT !.timeLogs = logs])

\* Reading a property a parsed object lacks yields undefined.
ParseObject(json, fields) ==
    [f \in fields |-> IF f \in DOMAIN json THEN json[f] ELSE Undefined]

TaskFields ==
    {"id", "status", "parentId", "mainCategory", "subCategory",
     "actualStartDate", "timeLogs", "totalTimeSpent", "outputs", "labels"}

LogFields == {"id", "startTime", "endTime"}

\* Variant: the time units come back without their end.
ParseTaskOpenUnits(json) ==
    LET t == ParseObject(json, TaskFields)
    IN [t EXCEPT !.timeLogs =
           [k \in 1..Len(t.timeLogs) |->
               [ParseObject(t.timeLogs[k], LogFields) EXCEPT !.endTime = Undefined]]]

ParseTask(json) ==
    LET t == ParseObject(json, TaskFields)
    IN [t EXCEPT !.timeLogs =
           [k \in 1..Len(t.timeLogs) |-> ParseObject(t.timeLogs[k], LogFields)]]

\* handleFullExport: JSON.stringify({ tasks, mainCategories, subCategories }).
FullExport(ts, main, sub) ==
    [tasks |-> JsonArray([i \in 1..Len(ts) |-> StringifyTask(ts[i])]),
     mainCategories |-> JsonArray(main),
     subCategories |-> JsonArray(sub)]

\* parsed.x of a parsed document: undefined, which is falsy and no array,
\* when the property is missing.
Prop(parsed, f) == IF f \in DOMAIN parsed THEN parsed[f] ELSE JsonOther(FALSE)

ArrayIsArray(v) == v.isArray

Truthy(v) == v.truthy

\* A value that is not a list, once it sits in the store in place of a list:
\* written as a list holding this one marker.
NotAList == <<"(not an array)">>

\* What the store holds after  set({ x: v }).
Stored(v) == IF v.isArray THEN v.items ELSE NotAList

\* v || []
StoredOrEmpty(v) == IF Truthy(v) THEN Stored(v) ELSE <<>>

\* importFullData: the three lists the store is set to.
ImportFullData(data) ==
    [tasks |-> IF ArrayIsArray(Prop(data, "tasks"))
               THEN [i \in 1..Len(data.tasks.items) |-> ParseTask(data.tasks.items[i])]
               ELSE StoredOrEmpty(Prop(data, "tasks")),
     mainCategories |-> StoredOrEmpty(Prop(data, "mainCategories")),
     subCategories |-> StoredOrEmpty(Prop(data, "subCategories"))]

\* The manager's message (setSuccess / setError) is held in wpc; the file of
\* the last export in wresult, next to the store it was written from in warg.
handleFullExport ==
    /\ wkind' = "backup"
    /\ wresult' = FullExport(tasks, mainCategories, subCategories)
    /\ warg' = [tasks |-> tasks, mainCategories |-> mainCategories,
                subCategories |-> subCategories]
    /\ wpc' = "success"
    /\ last' = [op |-> "handleFullExport", id |-> Undefined]
    /\ UNCHANGED <<tasks, mainCategories, subCategories, clock, nextTaskId, nextLogId>>
    /\ UNCHANGED <<wstack, wsteps>>

\* handleFullImport of a file that parses, the confirm dialog accepted.
handleFullImport(parsed) ==
    /\ IF ArrayIsArray(Prop(parsed, "tasks")) /\ ArrayIsArray(Prop(parsed, "mainCategories"))
          THEN /\ tasks' = ImportFullData(parsed).tasks
               /\ mainCategories' = ImportFullData(parsed).mainCategories
               /\ subCategories' = ImportFullData(parsed).subCategories
               /\ wpc' = "success"
          ELSE /\ wpc' = "error"
               /\ UNCHANGED <<tasks, mainCategories, subCategories>>
    /\ last' = [op |-> "handleFullImport", id |-> parsed]
    /\ UNCHANGED <<clock, nextTaskId, nextLogId>>
    /\ UNCHANGED <<wkind, warg, wstack, wresult, wsteps>>

\* handleCategoryImport, with importCategories.
handleCategoryImport(parsed) ==
    /\ IF Truthy(Prop(parsed, "mainCategories")) /\ Truthy(Prop(parsed, "subCategories"))
          THEN /\ mainCategories' = Stored(parsed.mainCategories)
               /\ subCategories' = Stored(parsed.subCategories)
               /\ wpc' = "success"
          ELSE /\ wpc' = "error"
               /\ UNCHANGED <<mainCategories, subCategories>>
    /\ last' = [op |-> "handleCategoryImport", id |-> parsed]
    /\ UNCHANGED <<tasks, clock, nextTaskId, nextLogId>>
    /\ UNCHANGED <<wkind, warg, wstack, wresult, wsteps>>

BackupFields == {"tasks", "mainCategories", "subCategories"}

\* The file with one property removed, or replaced by a value that is not
\* an array (truthy such as {} or "x", falsy such as null or 0).
Damaged(file, f, how) ==
    IF how = "missing" THEN [g \in DOMAIN file \ {f} |-> file[g]]
    ELSE [file EXCEPT ![f] = JsonOther(how = "truthy")]

\* Files offered to an import: the last export, whole or damaged.
ImportFiles ==
    IF wkind # "backup" THEN {}
    ELSE {wresult}
         \cup {Damaged(wresult, f, how) :
                  f \in BackupFields, how \in {"missing", "truthy", "falsy"}}

MaxBackupTasks == 1

\* ---- backup and restore: a store is built (tasks under a parent, timers,
\* hence open and closed time units), exported once, then loses data or is
\* handed files, and is restored
NextBackup ==
    \/ /\ wkind = "none"
       /\ nextTaskId <= MaxBackupTasks
       /\ \E taskData \in TaskDataInputs({"TODO"}, TaskIds(tasks) \cup {Undefined}) :
             addTask(taskData)
    \/ /\ wkind = "none"
       /\ \E id \in 1..MaxBackupTasks :
             /\ StartTimerAppends(tasks, id) => LogIdLeft(MaxBackupTasks)
             /\ startTimer(id)
    \/ /\ wkind = "none"
       /\ handleFullExport
    \/ /\ wkind = "backup"
       /\ \E id \in 1..MaxBackupTasks : deleteTask(id)
    \/ /\ wkind = "backup"
       /\ deleteSubCategory("Frontend")
    \/ \E parsed \in ImportFiles : handleFullImport(parsed)
    \/ \E parsed \in ImportFiles : handleCategoryImport(parsed)

SpecBackup == Init /\ [][NextBackup]_vars

IsArrayProp(parsed, f) == f \in DOMAIN parsed /\ parsed[f].isArray

\* C19: a full backup whose tasks or one of whose category lists is missing
\* or not an array, and a category file whose mainCategories or subCategories
\* is missing or not an array, is answered with an error, and the tasks and
\* both vocabularies stay as they were.
C19_MalformedImportRejected ==
    [][(\/ /\ last'.op = "handleFullImport"
           /\ \E f \in BackupFields : ~IsArrayProp(last'.id, f)
        \/ /\ last'.op = "handleCategoryImport"
           /\ \E f \in {"mainCategories", "subCategories"} : ~IsArrayProp(last'.id, f))
       => /\ wpc' = "error"
          /\ tasks' = tasks
          /\ mainCategories' = mainCategories
          /\ subCategories' = subCategories]_vars

\* ------------------------------------------------------ time-log editor
\* The end the dialog submits: the typed end; without one, the end of the
\* stored log, or for a running log the end of its slot, which slotsByDate
\* clipped at Date.now() when the store last changed.
SubmittedEnd(log, editEnd) ==
    IF editEnd # Undefined THEN editEnd
    ELSE IF ~Falsy(log.endTime) THEN log.endTime
    ELSE OrElse(clock, 0)

\* handleSaveLog on the slot of an existing log; editStart and editEnd are
\* instants of the slot's day, editEnd Undefined for an empty field.
handleSaveLog(taskId, logId, editStart, editEnd) ==
    /\ taskId \in TaskIds(tasks)
    /\ \E k \in 1..Len(TaskOf(tasks, taskId).timeLogs) :
          /\ TaskOf(tasks, taskId).timeLogs[k].id = logId
          /\ updateTimeLog(taskId, logId, editStart,
                           SubmittedEnd(TaskOf(tasks, taskId).timeLogs[k], editEnd))

\* handleDeleteLog
handleDeleteLog(taskId, logId) ==
    /\ taskId \in TaskIds(tasks)
    /\ \E k \in 1..Len(TaskOf(tasks, taskId).timeLogs) :
          TaskOf(tasks, taskId).timeLogs[k].id = logId
    /\ deleteTimeLog(taskId, logId)

\* ---- the timer and the time-log editor
NextEditor ==
    \/ /\ nextTaskId <= MaxTasks
       /\ \E taskData \in TaskDataInputs({"TODO"}, {Undefined}) : addTask(taskData)
    \/ \E id \in AllTaskIds :
          /\ StartTimerAppends(tasks, id) => LogIdLeft(MaxLogs)
          /\ startTimer(id)
    \/ \E id \in AllTaskIds : stopTimer(id)
    \/ \E id \in TaskIds(tasks), start \in Starts, end \in Starts :
          /\ LogIdLeft(MaxLogs)
          /\ manualAddTimeLog(id, start, end)
    \/ \E id \in AllTaskIds, logId \in AllLogIds, editStart \in Starts,
          editEnd \in Starts \cup {Undefined} :
          handleSaveLog(id, logId, editStart, editEnd)
    \/ \E id \in AllTaskIds, logId \in AllLogIds : handleDeleteLog(id, logId)

SpecEditor == Init /\ [][NextEditor]_vars

\* C20: in every state reached by the timer and the time-log edits
\* (startTimer, stopTimer, manualAddTimeLog, and updateTimeLog with any start
\* and end the editor can submit) every time unit that has an end has
\* end >= start.
C20_EndNotBeforeStart ==
    \A i \in 1..Len(tasks) : \A k \in 1..Len(tasks[i].timeLogs) :
        ~Falsy(tasks[i].timeLogs[k].endTime)
        => tasks[i].timeLogs[k].endTime >= tasks[i].timeLogs[k].startTime

\* ------------------------------------------------------- Gantt schedule
\* Instants per day in the schedule's specification: 86400000 ms.
OneDay == 2

\* Math.max() of no arguments.
NegInfinity == -2

MathMin(values) == CHOOSE v \in values : \A w \in values : v <= w

MathMax(values) ==
    IF values = {} THEN NegInfinity
    ELSE CHOOSE v \in values : \A w \in values : v >= w

\* isValid of date-fns on a number: false for the infinities alone.
isValid(x) == x # NegInfinity

\* format(x, 'yyyy-MM-dd'): the day the instant falls on.
FormatDay(x) == x \div OneDay

\* finalStart and finalEnd of one task of the schedule.
GanttResolved(task, now) ==
    LET logs == task.timeLogs
        actualStart == IF Len(logs) > 0
                       THEN MathMin({logs[k].startTime : k \in 1..Len(logs)})
                       ELSE Undefined
        actualEnd == IF task.status = "DONE" /\ Len(logs) > 0
                     THEN MathMax({logs[k].endTime :
                                      k \in {n \in 1..Len(logs) : ~Falsy(logs[n].endTime)}})
                     ELSE Undefined
    IN IF task.status = "TODO"
       THEN [start |-> task.estimatedStartDate, end |-> task.estimatedEndDate]
       ELSE IF task.status \in {"IN_PROGRESS", "PAUSED"}
       THEN [start |-> actualStart, end |-> OrElse(task.estimatedEndDate, now + OneDay)]
       ELSE [start |-> actualStart, end |-> OrElse(actualEnd, now)]

\* The lines of one category of the schedule: an entry for each task whose
\* finalStart and finalEnd are truthy and valid.
GanttEntries(catTasks, now) ==
    LET emitted == SelectSeq(catTasks, LAMBDA task :
                       LET r == GanttResolved(task, now)
                       IN ~Falsy(r.start) /\ ~Falsy(r.end) /\ isValid(r.start) /\ isValid(r.end))
    IN [k \in 1..Len(emitted) |->
           [id |-> emitted[k].id,
            starts |-> FormatDay(GanttResolved(emitted[k], now).start),
            ends |-> FormatDay(GanttResolved(emitted[k], now).end),
            status |-> emitted[k].status]]

\* ganttSource: one section per primary category of the active tasks, in the
\* order of first appearance.
ganttSource(active, now) ==
    LET mainCats == Dedup([i \in 1..Len(active) |-> CategoryKey(active[i].mainCategory)])
    IN [c \in 1..Len(mainCats) |->
           [category |-> mainCats[c],
            entries |-> GanttEntries(
                SelectSeq(active, LAMBDA t : CategoryKey(t.mainCategory) = mainCats[c]), now)]]

\* The Gantt section of the weekly report over the store at the instant clock.
WeeklyGantt(selectedLevels, startTs, endTs) ==
    RenderView("ganttSource",
               [start |-> startTs, end |-> endTs, levels |-> selectedLevels],
               [input |-> activeTasks(tasks, selectedLevels, startTs, endTs, clock),
                sections |-> ganttSource(
                    activeTasks(tasks, selectedLevels, startTs, endTs, clock), clock)])

MaxGanttTasks == 2
MaxGanttLogs == 2

\* What the form submits for a task of the schedule: a status, the two
\* estimated dates (a date picked or none), no parent, no category.
GanttTaskData(statuses, starts, ends) ==
    [status : statuses, parentId : {Undefined}, mainCategory : {""}, subCategory : {""},
     estimatedStartDate : starts, estimatedEndDate : ends]

\* ---- the schedule: tasks are created with estimates, their status is set
\* in the form, timers run, and the report is opened
NextGantt ==
    \/ /\ wpc = "idle"
       /\ nextTaskId <= MaxGanttTasks
       /\ \E taskData \in GanttTaskData({"TODO"}, {Undefined, 1}, {Undefined, 2}) :
             handleSubmit(Undefined, taskData)
    \/ /\ wpc = "idle"
       /\ \E id \in TaskIds(tasks) :
             \E taskData \in GanttTaskData(Statuses,
                                           {TaskOf(tasks, id).estimatedStartDate},
                                           {TaskOf(tasks, id).estimatedEndDate}) :
                handleSubmit(id, taskData)
    \/ /\ wpc = "idle"
       /\ \E id \in TaskIds(tasks) :
             /\ StartTimerAppends(tasks, id) => LogIdLeft(MaxGanttLogs)
             /\ startTimer(id)
    \/ /\ wpc = "idle"
       /\ \E id \in TaskIds(tasks) : stopTimer(id)
    \/ \E levels \in LevelSelections : WeeklyGantt(levels, 1, MaxNow + 1)

SpecGantt == Init /\ [][NextGantt]_vars

\* The resolved start and end as stated, Undefined when missing.
StatedResolved(task, now) ==
    LET logs == task.timeLogs
        earliest == IF logs = <<>> THEN Undefined
                    ELSE MathMin({logs[k].startTime : k \in 1..Len(logs)})
        closedEnds == {logs[k].endTime : k \in {n \in 1..Len(logs) : ~IsOpen(logs[n])}}
    IN IF task.status = "TODO"
       THEN [start |-> task.estimatedStartDate, end |-> task.estimatedEndDate]
       ELSE IF task.status \in {"IN_PROGRESS", "PAUSED"}
       THEN [start |-> earliest,
             end |-> IF task.estimatedEndDate # Undefined THEN task.estimatedEndDate
                     ELSE now + OneDay]
       ELSE [start |-> earliest,
             end |-> IF closedEnds # {} THEN MathMax(closedEnds) ELSE now]

GanttIds(sections) ==
    UNION {{sections[c].entries[k].id : k \in 1..Len(sections[c].entries)} :
              c \in 1..Len(sections)}

\* C21: every task of the schedule's input set has an entry in the Gantt text
\* exactly when its resolved start and end are both present: TODO resolves to
\* the estimated start and end; IN_PROGRESS or PAUSED to the earliest unit
\* start and the estimated end, or now + 1 day without estimate; DONE to the
\* earliest unit start and the latest closed unit end, or now when no unit is
\* closed.
C21_GanttEntryIffResolved ==
    (last.op = "ganttSource" /\ wpc = "done")
    => \A i \in 1..Len(wresult.input) :
          wresult.input[i].id \in GanttIds(wresult.sections)
          <=> /\ StatedResolved(wresult.input[i], clock).start # Undefined
              /\ StatedResolved(wresult.input[i], clock).end # Undefined

\* ---------------------------------------------- timer: the other tasks
\* C22: after startTimer(B) on an existing task B every other task that was
\* IN_PROGRESS before the call is PAUSED and has no open Time Unit, and B is
\* the only IN_PROGRESS task.
C22_StartPausesOthers ==
    [][(last'.op = "startTimer" /\ last'.id \in TaskIds(tasks))
       => /\ \A i \in 1..Len(tasks) :
                (tasks[i].id # last'.id /\ tasks[i].status = "IN_PROGRESS")
                => /\ tasks'[i].status = "PAUSED"
                   /\ ~HasOpenUnit(tasks'[i])
          /\ InProgress(tasks') = {IndexOfTask(tasks, last'.id)}]_vars

\* ------------------------------------------------- task list: numbering
\* Positions of the tasks of the list that have no parent id or whose parent
\* is not in the list.
RootPositions(ts) ==
    {i \in 1..Len(ts) : ts[i].parentId = Undefined \/ ts[i].parentId \notin TaskIds(ts)}

\* 1-based position of the task at position i among the tasks of the list
\* that share its parent id.
PositionAmongSiblings(ts, i) ==
    Cardinality({j \in 1..i : ts[j].parentId = ts[i].parentId})

\* C23: the task list's roots are exactly the filtered tasks without parent id
\* or with a parent outside the filtered list, numbered 1, 2, 3, ... in list
\* order; every emitted non-root has the index of its parent followed by its
\* 1-based position among the filtered tasks with that parent; no two emitted
\* tasks share an index.
C23_IndexerNumbering ==
    (wkind = "list" /\ wpc = "done")
    => /\ \A i \in RootPositions(tasks) :
             \E r \in 1..Len(wresult) :
                /\ wresult[r].id = tasks[i].id
                /\ wresult[r].indexDisplay
                      = <<Cardinality({j \in RootPositions(tasks) : j <= i})>>
       /\ \A r \in 1..Len(wresult) :
             LET i == IndexOfTask(tasks, wresult[r].id)
             IN IF Len(wresult[r].indexDisplay) = 1
                THEN i \in RootPositions(tasks)
                ELSE /\ i \notin RootPositions(tasks)
                     /\ \E p \in 1..Len(wresult) :
                           /\ wresult[p].id = tasks[i].parentId
                           /\ wresult[r].indexDisplay
                                 = Append(wresult[p].indexDisplay,
                                          PositionAmongSiblings(tasks, i))
       /\ \A a, b \in 1..Len(wresult) :
             a # b => wresult[a].indexDisplay # wresult[b].indexDisplay

\* C23 witness: the list walk finished on a list whose first row is a root
\* because its parent is not in the list, and which has a row numbered 1.2.
C23_Witness ==
    /\ wkind = "list"
    /\ wpc = "done"
    /\ \E r \in 1..Len(wresult) :
          /\ wresult[r].indexDisplay = <<1>>
          /\ TaskOf(tasks, wresult[r].id).parentId # Undefined
    /\ \E r \in 1..Len(wresult) : wresult[r].indexDisplay = <<1, 2>>

\* The chain of parents of the task, followed inside the list, arrives at a
\* task without parent id or with a parent outside the list in at most n steps.
RECURSIVE ReachesRootWithin(_, _, _)
ReachesRootWithin(ts, id, n) ==
    LET t == TaskOf(ts, id)
    IN \/ t.parentId = Undefined
       \/ t.parentId \notin TaskIds(ts)
       \/ n > 0 /\ ReachesRootWithin(ts, t.parentId, n - 1)

RowsOf(rows, id) == {r \in 1..Len(rows) : rows[r].id = id}

\* C29: in the task list a filtered task is emitted exactly once if its chain
\* of parents inside the filtered list reaches a root within 4 steps, and not
\* at all otherwise; the tasks of a parent cycle inside the list, a task that
\* is its own parent included, are absent.
C29_EmittedIffRootWithinFour ==
    (wkind = "list" /\ wpc = "done")
    => \A i \in 1..Len(tasks) :
          Cardinality(RowsOf(wresult, tasks[i].id))
             = IF ReachesRootWithin(tasks, tasks[i].id, MaxDepth - 1) THEN 1 ELSE 0

\* C29 witness: the list walk finished on a chain of six tasks, emitted the
\* first five and left out the sixth.
C29_Witness ==
    /\ wkind = "list"
    /\ wpc = "done"
    /\ Len(wresult) = MaxDepth
    /\ \E id \in TaskIds(tasks) :
          /\ HasAncestors(tasks, id, MaxDepth)
          /\ RowsOf(wresult, id) = {}
          /\ ~OnCycle(tasks, id, 1)

\* ------------------------------------------------- dashboard: the buckets
MaxStatsTasks == 2

MaxStatsInstant == 2

\* Instants of the time units, and instants of the windows and of the clock.
StatsInstants == 1..MaxStatsInstant

WindowInstants == 1..(MaxStatsInstant + 1)

\* The tasks the dashboard is computed on: each in a category pair or in
\* none, with no time unit or one (open, closed, or closed before its start)
\* over the first instants of the windows.
StatsListTasks(id) ==
    {RangeTask(id, cat, Undefined, logs) :
        cat \in RangeCategories,
        logs \in {<<>>} \cup {<<log>> : log \in [id : {id}, startTime : StatsInstants,
                                                endTime : {Undefined} \cup StatsInstants]}}

StatsLists ==
    UNION {{ts \in [1..n -> UNION {StatsListTasks(id) : id \in 1..n}] :
                \A i \in 1..n : ts[i].id = i} :
           n \in 1..MaxStatsTasks}

InitStats ==
    /\ tasks \in StatsLists
    /\ mainCategories = DefaultMainCategories
    /\ subCategories = DefaultSubCategories
    /\ clock \in WindowInstants
    /\ \A i \in 1..Len(tasks) : \A k \in 1..Len(tasks[i].timeLogs) :
          Falsy(tasks[i].timeLogs[k].endTime) => tasks[i].timeLogs[k].startTime <= clock
    /\ nextTaskId = Len(tasks) + 1
    /\ nextLogId = Len(tasks) + 1
    /\ last = [op |-> "init", id |-> Undefined]
    /\ NoWalk

\* ---- the dashboard over a task list
NextStats ==
    \E start \in WindowInstants, end \in WindowInstants : start < end /\ Stats(start, end)

SpecStats == InitStats /\ [][NextStats]_vars

RECURSIVE SumValues(_)
SumValues(map) ==
    IF map = <<>> THEN 0 ELSE Head(map).value + SumValues(Tail(map))

\* What the included units of the tasks that pass the test InBucket add up to.
RECURSIVE SumIncluded(_, _, _, _, _)
SumIncluded(ts, InBucket(_), ws, we, now) ==
    IF ts = <<>> THEN 0
    ELSE LET logs == Head(ts).timeLogs
             included == {k \in 1..Len(logs) : StatsIncludes(logs[k], ws, we, now)}
             RECURSIVE Sum(_)
             Sum(ks) == IF ks = {} THEN 0
                        ELSE LET k == CHOOSE x \in ks : TRUE
                             IN (Min(OrElse(logs[k].endTime, now), we) - Max(logs[k].startTime, ws))
                                + Sum(ks \ {k})
         IN (IF InBucket(Head(ts)) THEN Sum(included) ELSE 0)
            + SumIncluded(Tail(ts), InBucket, ws, we, now)

\* C24: for every task list and window each included unit's contribution is
\* in exactly one primary bucket and one secondary bucket, that of its task's
\* category or the bucket Other when the category is empty, so the primary
\* buckets and the secondary buckets each add up to the window's total.
C24_BucketsSumToTotal ==
    (last.op = "Stats" /\ wpc = "done")
    => /\ SumValues(wresult.mainMap) = wresult.totalMs
       /\ SumValues(wresult.subMap) = wresult.totalMs
       /\ wresult.totalMs = SumIncluded(tasks, LAMBDA t : TRUE, warg.start, warg.end, clock)
       /\ \A b \in 1..Len(wresult.mainMap) :
             /\ wresult.mainMap[b].value
                   = SumIncluded(tasks,
                        LAMBDA t : t.mainCategory = wresult.mainMap[b].name
                                   \/ (t.mainCategory = "" /\ wresult.mainMap[b].name = OtherCategory),
                        warg.start, warg.end, clock)
             /\ \A c \in 1..Len(wresult.mainMap) :
                   b # c => wresult.mainMap[b].name # wresult.mainMap[c].name
       /\ \A b \in 1..Len(wresult.subMap) :
             /\ wresult.subMap[b].value
                   = SumIncluded(tasks,
                        LAMBDA t : t.subCategory = wresult.subMap[b].name
                                   \/ (t.subCategory = "" /\ wresult.subMap[b].name = OtherCategory),
                        warg.start, warg.end, clock)
             /\ \A c \in 1..Len(wresult.subMap) :
                   b # c => wresult.subMap[b].name # wresult.subMap[c].name

\* C24 witness: the dashboard was computed over two tasks of one category
\* whose units both count in the window, one of them clipped by it.
C24_Witness ==
    /\ last.op = "Stats"
    /\ wpc = "done"
    /\ Len(tasks) = 2
    /\ tasks[1].mainCategory = "" /\ tasks[2].mainCategory = ""
    /\ \A i \in 1..2 :
          /\ tasks[i].timeLogs # <<>>
          /\ StatsIncludes(tasks[i].timeLogs[1], warg.start, warg.end, clock)
    /\ OrElse(tasks[1].timeLogs[1].endTime, clock) > warg.end
    /\ wresult.mainMap = <<[name |-> OtherCategory, value |-> wresult.totalMs]>>
    /\ wresult.totalMs > 1

\* ------------------------------------------------ task form: creation
MaxCreateTasks == 3

\* What the form holds at submit besides status, parent and categories: the
\* outputs added with handleAddOutput and named, and the labels added with
\* handleAddLabel.
FormOutputs == {<<>>, <<[id |-> "o1", name |-> "report", link |-> "", completeness |-> ""]>>}

FormLabels == {<<>>, <<"urgent">>}

CreateTaskData(parents) ==
    [status : {"TODO"}, parentId : parents, mainCategory : {""}, subCategory : {""},
     outputs : FormOutputs, labels : FormLabels]

\* ---- the task form with outputs and labels, and the delete button
NextCreate ==
    \/ /\ nextTaskId <= MaxCreateTasks
       /\ \E taskData \in CreateTaskData(TaskIds(tasks) \cup {Undefined}) :
             handleSubmit(Undefined, taskData)
    \/ \E id \in TaskIds(tasks) :
          \E taskData \in CreateTaskData({TaskOf(tasks, id).parentId}) :
             handleSubmit(id, taskData)
    \/ \E id \in 1..MaxCreateTasks : deleteTask(id)

SpecCreate == Init /\ [][NextCreate]_vars

\* C25: after createTask(fields), whatever the fields hold (outputs and labels
\* entered in the form included), the store has one more task, appended last,
\* with an id no task had, no Time Unit, no output, no label and a total of
\* 0; the tasks that were there and both vocabularies are unchanged.
C25_CreateAppendsBlankTask ==
    [][last'.op = "addTask"
       => /\ Len(tasks') = Len(tasks) + 1
          /\ \A i \in 1..Len(tasks) : tasks'[i] = tasks[i]
          /\ tasks'[Len(tasks')].id \notin TaskIds(tasks)
          /\ tasks'[Len(tasks')].timeLogs = <<>>
          /\ tasks'[Len(tasks')].outputs = <<>>
          /\ tasks'[Len(tasks')].labels = <<>>
          /\ tasks'[Len(tasks')].totalTimeSpent = 0
          /\ mainCategories' = mainCategories
          /\ subCategories' = subCategories]_vars

\* C25 witness: a task was created last in a store whose other task holds a
\* label and an output given to it by an edit; the new task holds none.
C25_Witness ==
    /\ last.op = "addTask"
    /\ Len(tasks) = 2
    /\ tasks[2].id = last.id
    /\ tasks[1].labels # <<>>
    /\ tasks[1].outputs # <<>>
    /\ tasks[2].labels = <<>>
    /\ tasks[2].outputs = <<>>

\* --------------------------------------- timer and time-log operations
MaxUnitLogs == 2

\* A store holding two tasks, as two submits of the empty form leave it.
InitTwoTasks ==
    /\ tasks = <<NewTask(1, [status |-> "TODO", parentId |-> Undefined,
                             mainCategory |-> "", subCategory |-> ""]),
                 NewTask(2, [status |-> "TODO", parentId |-> Undefined,
                             mainCategory |-> "", subCategory |-> ""])>>
    /\ mainCategories = DefaultMainCategories
    /\ subCategories = DefaultSubCategories
    /\ clock = 1
    /\ nextTaskId = 3
    /\ nextLogId = 1
    /\ last = [op |-> "init", id |-> Undefined]
    /\ NoWalk

\* ---- the timer on two tasks, and the time-log operations on the units of
\* the first of them; the second is the other task, which the timer alone
\* drives
NextUnits ==
    \/ \E id \in TaskIds(tasks) :
          /\ StartTimerAppends(tasks, id) => LogIdLeft(MaxUnitLogs)
          /\ startTimer(id)
    \/ \E id \in TaskIds(tasks) : stopTimer(id)
    \/ \E start \in Starts, end \in Starts :
          /\ LogIdLeft(MaxUnitLogs)
          /\ manualAddTimeLog(tasks[1].id, start, end)
    \/ \E k \in 1..Len(tasks[1].timeLogs), start \in Starts, end \in Starts :
          updateTimeLog(tasks[1].id, tasks[1].timeLogs[k].id, start, end)
    \/ \E k \in 1..Len(tasks[1].timeLogs) :
          deleteTimeLog(tasks[1].id, tasks[1].timeLogs[k].id)

SpecUnits == InitTwoTasks /\ [][NextUnits]_vars

\* ------------------------------------------------ timer: the actual start
TimerAndLogOps ==
    {"startTimer", "stopTimer", "manualAddTimeLog", "updateTimeLog", "deleteTimeLog"}

\* C26: the startTimer call that first opens a Time Unit on a task sets the
\* task's actual start to now, and no later startTimer, stopTimer or time-log
\* edit changes it, at whatever instant it runs.
C26_ActualStartSetOnce ==
    [][last'.op \in TimerAndLogOps
       => /\ Len(tasks') = Len(tasks)
          /\ \A i \in 1..Len(tasks) :
                /\ tasks[i].actualStartDate # Undefined
                   => tasks'[i].actualStartDate = tasks[i].actualStartDate
                /\ (/\ last'.op = "startTimer"
                    /\ tasks[i].id = last'.id
                    /\ Len(tasks'[i].timeLogs) = Len(tasks[i].timeLogs) + 1
                    /\ tasks[i].actualStartDate = Undefined)
                   => tasks'[i].actualStartDate = clock'
                /\ (/\ tasks[i].actualStartDate = Undefined
                    /\ tasks'[i].actualStartDate # Undefined)
                   => /\ last'.op = "startTimer"
                      /\ tasks[i].id = last'.id
                      /\ Len(tasks'[i].timeLogs) = Len(tasks[i].timeLogs) + 1]_vars

\* C26 witness: a task was started again at a later instant than its actual
\* start, after its first unit was edited to start later still.
C26_Witness ==
    /\ last.op = "startTimer"
    /\ last.id \in TaskIds(tasks)
    /\ LET t == TaskOf(tasks, last.id)
       IN /\ Len(t.timeLogs) = 2
          /\ IsOpen(t.timeLogs[2])
          /\ t.actualStartDate < t.timeLogs[2].startTime
          /\ t.actualStartDate < t.timeLogs[1].startTime

\* Sum of ((end if present, else 0) - start) over the units.
RECURSIVE StatedTotal(_)
StatedTotal(logs) ==
    IF logs = <<>> THEN 0
    ELSE ((IF Head(logs).endTime # Undefined THEN Head(logs).endTime ELSE 0)
             - Head(logs).startTime)
         + StatedTotal(Tail(logs))

\* C27: after manualAddTimeLog, updateTimeLog or deleteTimeLog on task T,
\* T's totalTimeSpent is the sum over T's remaining units of ((end if
\* present, else 0) - start), T's status is what it was, and every other
\* task is unchanged.
C27_LogEditRecomputesTotal ==
    [][(/\ last'.op \in {"manualAddTimeLog", "updateTimeLog", "deleteTimeLog"}
        /\ last'.id \in TaskIds(tasks))
       => /\ Len(tasks') = Len(tasks)
          /\ \A i \in 1..Len(tasks) :
                IF tasks[i].id = last'.id
                THEN /\ tasks'[i].totalTimeSpent = StatedTotal(tasks'[i].timeLogs)
                     /\ tasks'[i].status = tasks[i].status
                ELSE tasks'[i] = tasks[i]]_vars

\* C27 witness: the closed unit of the running task was edited: the task is
\* still IN_PROGRESS, its open unit counts -start and its total is below 0.
C27_Witness ==
    /\ last.op = "updateTimeLog"
    /\ tasks[1].id = last.id
    /\ tasks[1].status = "IN_PROGRESS"
    /\ Len(tasks[1].timeLogs) = 2
    /\ ~IsOpen(tasks[1].timeLogs[1])
    /\ tasks[1].timeLogs[1].endTime > tasks[1].timeLogs[1].startTime
    /\ IsOpen(tasks[1].timeLogs[2])
    /\ tasks[1].totalTimeSpent < 0
    /\ Len(tasks) = 2

\* ------------------------------------------- timer: status and open unit
\* Stores of tasks without Time Units, none of them IN_PROGRESS.
IdleLists ==
    UNION {{[i \in 1..n |->
                NewTask(i, [status |-> st[i], parentId |-> Undefined,
                            mainCategory |-> "", subCategory |-> ""])] :
               st \in [1..n -> Statuses \ {"IN_PROGRESS"}]} :
           n \in 0..MaxTimerTasks}

InitIdle ==
    /\ tasks \in IdleLists
    /\ mainCategories = DefaultMainCategories
    /\ subCategories = DefaultSubCategories
    /\ clock = 1
    /\ nextTaskId = Len(tasks) + 1
    /\ nextLogId = 1
    /\ last = [op |-> "init", id |-> Undefined]
    /\ NoWalk

\* ---- the timer from an idle store: tasks are created TODO, timers started
\* and stopped
NextIdle ==
    \/ /\ nextTaskId <= MaxTimerTasks
       /\ \E taskData \in TaskDataInputs({"TODO"}, {Undefined}) : addTask(taskData)
    \/ \E id \in 1..MaxTimerTasks :
          /\ StartTimerAppends(tasks, id) => LogIdLeft(MaxTimerLogs)
          /\ startTimer(id)
    \/ \E id \in 1..MaxTimerTasks : stopTimer(id)

SpecIdle == InitIdle /\ [][NextIdle]_vars

\* C28: from a store of tasks without Time Units, none IN_PROGRESS, in every
\* state reached by createTask with status TODO, startTimer and stopTimer, a
\* task is IN_PROGRESS exactly when it has an open Time Unit, and a TODO task
\* has no Time Units.
C28_InProgressIffOpenUnit ==
    \A i \in 1..Len(tasks) :
        /\ tasks[i].status = "IN_PROGRESS" <=> HasOpenUnit(tasks[i])
        /\ tasks[i].status = "TODO" => tasks[i].timeLogs = <<>>

\* C28 witness: after a start took the timer over, the started task runs
\* again (a closed unit and an open one) beside a paused task whose unit is
\* closed.
C28_Witness ==
    /\ last.op = "startTimer"
    /\ \E i, j \in 1..Len(tasks) :
          /\ tasks[i].id = last.id
          /\ tasks[i].status = "IN_PROGRESS"
          /\ HasOpenUnit(tasks[i])
          /\ HasClosedUnit(tasks[i])
          /\ tasks[j].status = "PAUSED"
          /\ HasClosedUnit(tasks[j])
          /\ ~HasOpenUnit(tasks[j])

\* ------------------------------------------------ timer: what a start writes
\* C30: startTimer(id) changes only the target task and the tasks that are
\* IN_PROGRESS with an open Time Unit; every other task and both vocabularies
\* are unchanged.  When no task has the id, the running task is still paused
\* and its unit closed, and no Time Unit is opened.
C30_StartTimerFrame ==
    [][last'.op = "startTimer"
       => /\ Len(tasks') = Len(tasks)
          /\ \A i \in 1..Len(tasks) :
                tasks'[i] # tasks[i]
                => \/ tasks[i].id = last'.id
                   \/ tasks[i].status = "IN_PROGRESS" /\ HasOpenUnit(tasks[i])
          /\ mainCategories' = mainCategories
          /\ subCategories' = subCategories
          /\ last'.id \notin TaskIds(tasks)
             => \A i \in 1..Len(tasks) :
                   /\ Len(tasks'[i].timeLogs) = Len(tasks[i].timeLogs)
                   /\ ~HasOpenUnit(tasks'[i]) \/ tasks'[i] = tasks[i]
                   /\ (tasks[i].status = "IN_PROGRESS" /\ HasOpenUnit(tasks[i]))
                      => /\ tasks'[i].status = "PAUSED"
                         /\ ~HasOpenUnit(tasks'[i])
                         /\ \A k \in ClosedByStep(tasks[i], tasks'[i]) :
                               tasks'[i].timeLogs[k].endTime = clock']_vars

\* C30 witness: startTimer was called with an id no task has, at an instant
\* after the running task's start; that task is paused, its unit ends at the
\* call's instant, and nothing runs.
C30_Witness ==
    /\ last.op = "startTimer"
    /\ last.id \notin TaskIds(tasks)
    /\ OpenUnits(tasks) = {}
    /\ \E i \in 1..Len(tasks) :
          /\ tasks[i].status = "PAUSED"
          /\ Len(tasks[i].timeLogs) = 1
          /\ tasks[i].timeLogs[1].endTime = clock
          /\ tasks[i].timeLogs[1].startTime < clock

====
